---- MODULE Spec2Model ----
(***************************************************************************)
(* Payment orchestration and subscription lifecycle of bozy-bot:           *)
(* checkout (CheckoutController.generateLink), webhook reconciliation      *)
(* (WebhookController), the expiration sweep (CronService) and the         *)
(* cancel_confirm callback of the Telegram engine.                         *)
(*                                                                         *)
(* Every handler is an async function.  A handler is modelled as a process *)
(* whose position advances at the awaits that write storage or call an     *)
(* external collaborator, so that handlers interleave exactly where the    *)
(* Node event loop lets them.                                              *)
(***************************************************************************)
EXTENDS Integers, Sequences, FiniteSets, TLC

\* ------------------------------------------------------------------ bounds
\* Checkouts that reach the provider, in the specifications of one Subscription
\* and in the one of competing Subscriptions.
MaxSubs == 1
MaxPairSubs == 2
MaxDeliveries == 2
MaxTime == 3
\* Broadcasts handed to the mailing queue, and messages sent for one item.
MaxBroadcasts == 1
MaxSends == 2
\* Months of the promotion programme.
MaxMonths == 2

\* ------------------------------------------------------------- model data
\* A nullable column that holds no value (ids and dates start at 1).
NULL == 0

Users == {1, 2}

\* The plans of the creator's bot; Plan.duration_days: 0 is a lifetime plan.
PlanIds == {1, 2}
PlanDuration(planId) == IF planId = 1 THEN 1 ELSE 0

\* User.gateway_preference: ENUM of the six gateways.
Gateways == {"asaas", "mercadopago", "stripe", "pushinpay", "syncpay", "paradisepag"}

\* The two generateLink versions of the repository.
Versions == {"current", "earlier"}

\* Amounts are in thousandths of the currency unit: a stored fee may have a third
\* decimal.  The values an administrator sets the fixed fee to, in whole cents and
\* not; Plan.price of the two plans (10.00 and 0.40); the amounts of an offer.
Fees == {550, 1000}
SubCentFees == {555}
PlanPrice(planId) == IF planId = 1 THEN 10000 ELSE 400
OfferAmounts == {0 - 400, 400}
Amounts == {0, 400, 550, 10000}

\* The six registered gateways and a name that is not in the registry.
GatewayNames == Gateways \cup {"paypal"}

Workers == {1, 2}
Runs == {1, 2}

VARIABLES
    gateway_preference, \* the creator's User.gateway_preference
    fixed_fee_amount,   \* Setting 'fixed_fee_amount'; NULL when there is no such Setting
    deployed,   \* the generateLink version that serves checkouts
    webhookSecret, \* whether config.stripe.webhookSecret is set
    signature,  \* the stripe-signature header of the latest Stripe delivery
    svc,        \* the latest direct call of a PaymentService method
    access,     \* the latest command or refused callback of the bot, and its reply
    isProcessing, \* QueueService.isProcessing
    broadcasts, \* table broadcasts
    items,      \* table broadcast_items; sends: the messages Telegram took for the item
    qrun,       \* the processQueue calls in progress
    lastTick,   \* what the latest cron tick of the queue did
    creator,    \* the creator's User row: the promotion fields
    sp,         \* the submitPromotion requests in progress
    answer,     \* the answer to the latest submitPromotion request
    now,        \* the clock read by new Date(), in days
    subs,       \* table subscriptions: row id = index, created_at order = index order
    txs,        \* table transactions
    payments,   \* provider side: the payments created by the adapters' calls
    activated,  \* per subscription: writes of status 'active' so far
    notified,   \* per subscription: notifySubscriptionActivated calls so far
    delivered,  \* webhook deliveries so far
    response,   \* the answer sent to the latest webhook delivery
    co,         \* the generateLink request in progress
    wh,         \* the webhook requests in progress
    sw,         \* the processExpiredSubscriptions runs in progress
    cc          \* the cancel_confirm callback in progress

\* What the checkout, the webhook handlers of the other gateways, the sweep and the
\* callback leave alone.
\* The mailing queue.
mailing == <<isProcessing, broadcasts, items, qrun, lastTick>>

\* The promotion programme of the creator.
promotion == <<creator, sp, answer>>

config == <<gateway_preference, deployed, fixed_fee_amount, webhookSecret, signature, svc,
           access, mailing, promotion>>
vars == <<gateway_preference, deployed, fixed_fee_amount, webhookSecret, signature, svc,
          access, mailing, promotion, now, subs, txs, payments, activated, notified, delivered, response, co, wh,
          sw, cc>>

\* User.js defaults of the promotion fields: promotion_active false, no dates,
\* promotions_used_this_month 0.
NoPromotion == [promotion_active |-> FALSE, promotion_started_at |-> NULL,
                promotion_ends_at |-> NULL, promotions_used_this_month |-> 0,
                promotions_reset_at |-> NULL]
\* A submitPromotion request: where it is, and promotions_used_this_month of the
\* User instance it holds.
IdleSubmit == [pc |-> "idle", used |-> 0]

SubIds == 1..Len(subs)
TxIds == 1..Len(txs)

\* ----------------------------------------------------------- storage reads
Max(S) == CHOOSE x \in S : \A y \in S : y <= x
Min(S) == CHOOSE x \in S : \A y \in S : x <= y

\* Transaction.findOne({ where: { gateway_payment_id } }): NULL when no row.
TxByPaymentId(paymentId) ==
    LET hit == {t \in TxIds : txs[t].gateway_payment_id = paymentId}
    IN  IF paymentId = NULL \/ hit = {} THEN NULL ELSE Min(hit)

\* Transaction.findOne({ where: { subscription_id } }): NULL when no row.
TxBySubscription(subId) ==
    LET hit == {t \in TxIds : txs[t].subscription_id = subId}
    IN  IF hit = {} THEN NULL ELSE Min(hit)

\* `${planId || 'offer'}_${telegramId || 'web'}_${Date.now()}`, as its three parts.
Token(x, absent) == IF x = NULL THEN absent ELSE ToString(x)
ExternalReference(planId, telegramId, millis) ==
    <<Token(planId, "offer"), Token(telegramId, "web"), ToString(millis)>>

\* Date.now() of a checkout, in milliseconds: a later checkout reads a later value.
DateNow == Len(payments) + 1

\* findSubscriptionByExternalRef: parts[0] is the plan; the newest pending row of it.
FindSubscriptionByExternalRef(externalRef) ==
    IF externalRef = <<>> THEN NULL
    ELSE LET planId == externalRef[1]
             hit == {s \in SubIds : ToString(subs[s].plan_id) = planId
                                    /\ subs[s].status = "pending"}
         IN  IF hit = {} THEN NULL ELSE Max(hit)

\* processPaymentStatus: the bucket of a gateway status.
ConfirmedStatuses == {"CONFIRMED", "RECEIVED", "PAID", "complete", "approved"}
FailedStatuses == {"OVERDUE", "FAILED", "REFUNDED", "CANCELLED", "rejected"}
NewStatus(gatewayStatus) ==
    IF gatewayStatus \in ConfirmedStatuses THEN "confirmed"
    ELSE IF gatewayStatus \in FailedStatuses THEN "failed"
    ELSE "pending"

\* MercadoPagoService.mapStatus
MapStatus(mpStatus) ==
    CASE mpStatus \in {"approved", "authorized"} -> "confirmed"
      [] mpStatus \in {"pending", "in_process"} -> "pending"
      [] mpStatus \in {"rejected", "cancelled"} -> "failed"
      [] mpStatus = "refunded" -> "refunded"
      [] OTHER -> "pending"

\* parseFloat(x.toFixed(2)): x rounded to whole cents, a half away from zero.
ToFixed2(x) ==
    IF x >= 0 THEN ((x + 5) \div 10) * 10 ELSE 0 - (((0 - x) + 5) \div 10) * 10

\* The in-code fallback of the fixed fee: 0.55.
DefaultFee == 550

\* A read without its try/catch: the storage error (-1) reaches the caller.
GetPlatformFeeUncaught(setting, readFails) ==
    IF readFails THEN 0 - 1 ELSE IF setting = NULL THEN DefaultFee ELSE setting

\* getPlatformFee: the Setting's value, 0.55 when there is no Setting or findOne
\* rejects.
GetPlatformFee(setting, readFails) ==
    IF readFails \/ setting = NULL THEN DefaultFee ELSE setting

\* A split whose fee is cut down to the amount.
CalculateSplitReducingFee(amount, platformFee) ==
    [gross |-> ToFixed2(amount), platformFee |-> ToFixed2(Min({amount, platformFee})),
     creatorNet |-> ToFixed2(Max({0, amount - platformFee}))]

\* calculateSplit: creatorNet = Math.max(0, amount - platformFee); each of the three
\* outputs is rounded on its own.
CalculateSplit(amount, platformFee) ==
    [gross |-> ToFixed2(amount), platformFee |-> ToFixed2(platformFee),
     creatorNet |-> ToFixed2(Max({0, amount - platformFee}))]

\* createSubscription: the adapter call its switch makes for a gateway.
CreateSubscription(gateway) ==
    CASE gateway \in {"asaas", "mercadopago", "stripe"} -> "subscription"
      [] gateway = "pushinpay" -> "payment"
      [] OTHER -> "error"

\* ------------------------------------------------------------------- Init
NoSplit == [gross |-> NULL, platformFee |-> NULL, creatorNet |-> NULL]
IdleCheckout == [pc |-> "idle", plan |-> NULL, user |-> NULL, token |-> TRUE,
                 split |-> NoSplit, result |-> "none", payment |-> NULL, sub |-> NULL]
IdleWebhook == [pc |-> "idle", payment |-> NULL, byRef |-> FALSE, bucket |-> "",
                gatewayStatus |-> "", paidAt |-> NULL, tx |-> NULL, sub |-> NULL,
                seen |-> ""]
IdleSweep == [pc |-> "idle", found |-> {}, batch |-> {}, failed |-> {}, cur |-> NULL]
IdleCancel == [pc |-> "idle", sub |-> NULL, user |-> NULL]
IdleRun == [pc |-> "idle", drafts |-> {}, batch |-> {}, cur |-> NULL]
NoCommand == [command |-> "none", user |-> NULL, sub |-> NULL, link |-> FALSE]
NoCall == [op |-> "none", gateway |-> "", amount |-> NULL, setting |-> NULL,
           readFails |-> FALSE, fee |-> NULL, outcome |-> "", split |-> NoSplit]

\* The tables after start(): syncDatabase(true) has dropped and recreated them.
EmptyTables ==
    /\ fixed_fee_amount = NULL
    /\ subs = <<>>
    /\ txs = <<>>
    /\ activated = <<>>
    /\ notified = <<>>

InitWith(names) ==
    /\ gateway_preference \in names
    /\ deployed \in Versions
    /\ webhookSecret \in (IF gateway_preference = "stripe" THEN BOOLEAN ELSE {TRUE})
    /\ signature = "none"
    /\ svc = NoCall
    /\ access = NoCommand
    /\ isProcessing = FALSE
    /\ broadcasts = <<>>
    /\ items = <<>>
    /\ qrun = [r \in Runs |-> IdleRun]
    /\ lastTick = "none"
    /\ creator = NoPromotion
    /\ sp = [q \in Workers |-> IdleSubmit]
    /\ answer = "none"
    /\ EmptyTables
    /\ now = 1
    /\ payments = <<>>
    /\ delivered = 0
    /\ response = "none"
    /\ co = IdleCheckout
    /\ wh = [w \in Workers |-> IdleWebhook]
    /\ sw = [r \in Runs |-> IdleSweep]
    /\ cc = IdleCancel

Init == InitWith(Gateways)

\* ------------------------------------------------------------------ clock
Tick ==
    /\ now < MaxTime
    /\ now' = now + 1
    /\ UNCHANGED <<config, subs, txs, payments, activated, notified, delivered, response, co, wh, sw, cc>>

\* ------------------------------------------------- checkout: generateLink
\* getGateway: this.gateways[gatewayName] or throw 'not supported'.
GetGateway(gatewayName) == gatewayName \in Gateways

\* Every name has an adapter whose call can return.
AnyAdapterCanSucceed(version, gateway) == TRUE

\* Whether the adapter call of a gateway can return a result.  current:
\* PaymentService.createPaymentLink hands (paymentData, creatorWalletId) to every
\* adapter but PushinPay's; MercadoPago's, Stripe's, SyncPay's and ParadisePag's
\* then throw before any request is sent, Asaas's sends one.  earlier: the
\* controller's own switch, which knows four gateways.
AdapterCanSucceed(version, gateway) ==
    IF version = "current" THEN GetGateway(gateway) /\ gateway \in {"asaas", "pushinpay"}
    ELSE gateway \in {"asaas", "mercadopago", "stripe", "pushinpay"}

\* gateway_payment_id of the new Transaction: result.id || null (current),
\* result.payment?.id || null (earlier).
StoredPaymentId(version, gateway, paymentId) ==
    IF version = "current"
    THEN (IF gateway = "pushinpay" THEN paymentId ELSE NULL)
    ELSE (IF gateway = "asaas" THEN paymentId ELSE NULL)

\* The catch of the adapter call without its return: the request would go on.
GatewayErrorFallsThrough == "createSub"

\* The credential under which the adapter's request reaches the provider.  current:
\* AsaasService.createPaymentWithSplit(creatorApiKey, paymentData) receives
\* (paymentData, creatorWalletId), so the access_token header is the paymentData
\* object, nobody's credential; PushinPay's receives paymentData.creatorApiToken.
\* earlier: the creator's gateway_api_token, but StripeService charges with the
\* platform's Stripe(config.stripe.secretKey).
CallCredential(version, gateway) ==
    IF version = "current"
    THEN (IF gateway = "pushinpay" THEN "creator" ELSE "none")
    ELSE (IF gateway = "stripe" THEN "platform" ELSE "creator")

\* The account the split / fee field of the request names (the platform's and the
\* creator's account ids being configured).  current: PushinPay's platformAccountId
\* argument is creator.asaas_wallet_id.  earlier: Stripe's
\* transfer_data.destination is the creator's account.
SplitRecipient(version, gateway) ==
    IF version = "current"
    THEN (IF gateway = "pushinpay" THEN "creator" ELSE "platform")
    ELSE (IF gateway = "stripe" THEN "creator" ELSE "platform")

\* The platform fee the request carries.  Every adapter calls its own
\* calculateSplit, which reads the Setting again; AsaasService does not await it,
\* so its fixedValue is undefined.
SentFee(gateway, split) ==
    IF gateway = "asaas" THEN NULL ELSE split.platformFee

\* The request leaves generateLink after the catch of the adapter call.
GatewayErrorNext == "idle"

\* A row created as already paid for.
NewSubscriptionActive(planId, telegramId, gateway) ==
    [plan_id |-> planId, user_telegram_id |-> telegramId, gateway |-> gateway,
     status |-> "active", starts_at |-> NULL, expires_at |-> NULL]

\* Subscription.create({ ..., status: 'pending' })
NewSubscription(planId, telegramId, gateway) ==
    [plan_id |-> planId, user_telegram_id |-> telegramId, gateway |-> gateway,
     status |-> "pending", starts_at |-> NULL, expires_at |-> NULL]

\* Transaction.create({ ..., status: 'pending' })
NewTransaction(subId, paymentId, splitAmounts) ==
    [subscription_id |-> subId, gateway_payment_id |-> paymentId,
     amount_gross |-> splitAmounts.gross,
     amount_net_creator |-> splitAmounts.creatorNet,
     amount_platform_fee |-> splitAmounts.platformFee,
     status |-> "pending", paid_at |-> NULL]

\* A creator without a token passes as configured.
CreatorConfiguredAlways(token) == TRUE

\* if (!creator.gateway_api_token) return 400 CREATOR_GATEWAY_NOT_CONFIGURED
CreatorConfigured(token) == token

\* plan.price: of the plan, or parseFloat(amount) of an offer.
Price(planId, amount) == IF planId # NULL THEN PlanPrice(planId) ELSE amount

\* generateLink up to the adapter call: a plan, or (current) botId and amount, or
\* 400; the creator's token or 400; then PaymentService.calculateSplit reads the fee
\* and the request reaches the adapter call.
CheckoutBegin(limit, planId, telegramId, amount, token) ==
    /\ co.pc = "idle"
    /\ Len(payments) < limit
    /\ \E readFails \in BOOLEAN :
          co' = IF planId = NULL /\ (deployed = "earlier" \/ amount = NULL)
                THEN [IdleCheckout EXCEPT !.result = "invalid"]
                ELSE IF ~CreatorConfigured(token)
                THEN [IdleCheckout EXCEPT !.result = "unconfigured", !.token = token]
                ELSE [IdleCheckout EXCEPT
                        !.pc = "adapter", !.plan = planId, !.user = telegramId,
                        !.token = token,
                        !.split = CalculateSplit(Price(planId, amount),
                                     GetPlatformFee(fixed_fee_amount, readFails))]
    /\ UNCHANGED <<config, now, subs, txs, payments, activated, notified, delivered, response, wh, sw, cc>>

\* await PaymentService.createPaymentLink(...) throws: 400 GATEWAY_ERROR.
CheckoutAdapterFails ==
    /\ co.pc = "adapter"
    /\ co' = [IdleCheckout EXCEPT !.pc = GatewayErrorNext, !.result = "fail"]
    /\ UNCHANGED <<config, now, subs, txs, payments, activated, notified, delivered, response, wh, sw, cc>>

\* await PaymentService.createPaymentLink(...) returns: the provider holds a payment
\* that carries the external reference of this checkout.
CheckoutAdapterReturns ==
    /\ co.pc = "adapter"
    /\ AdapterCanSucceed(deployed, gateway_preference)
    /\ \E readFails \in BOOLEAN :
          payments' = Append(payments,
             [gateway |-> gateway_preference,
              ref |-> ExternalReference(co.plan, co.user, DateNow),
              credential |-> CallCredential(deployed, gateway_preference),
              recipient |-> SplitRecipient(deployed, gateway_preference),
              amount |-> co.split.gross,
              platformFee |-> SentFee(gateway_preference,
                                 CalculateSplit(co.split.gross,
                                    GetPlatformFee(fixed_fee_amount, readFails))),
              sub |-> NULL])
    /\ co' = [co EXCEPT !.pc = "createSub", !.result = "ok", !.payment = Len(payments) + 1]
    /\ UNCHANGED <<config, now, subs, txs, activated, notified, delivered, response, wh, sw, cc>>

\* await Subscription.create(...)
CheckoutCreateSubscription ==
    /\ co.pc = "createSub"
    /\ subs' = Append(subs, NewSubscription(co.plan, co.user, gateway_preference))
    /\ activated' = Append(activated, 0)
    /\ notified' = Append(notified, 0)
    /\ payments' = IF co.payment = NULL THEN payments
                   ELSE [payments EXCEPT ![co.payment].sub = Len(subs) + 1]
    /\ co' = [co EXCEPT !.pc = "createTx", !.sub = Len(subs) + 1]
    /\ UNCHANGED <<config, now, txs, delivered, response, wh, sw, cc>>

\* await Transaction.create(...), then res.json(...)
CheckoutCreateTransaction ==
    /\ co.pc = "createTx"
    /\ txs' = Append(txs, NewTransaction(co.sub,
                 StoredPaymentId(deployed, gateway_preference, co.payment), co.split))
    /\ co' = [IdleCheckout EXCEPT !.result = co.result]
    /\ UNCHANGED <<config, now, subs, payments, activated, notified, delivered, response, wh, sw, cc>>

\* Subscription.create or Transaction.create rejects (the storage is unreachable,
\* a constraint fails): the outer catch answers 500.
CheckoutStorageFails ==
    /\ co.pc \in {"createSub", "createTx"}
    /\ co' = [IdleCheckout EXCEPT !.result = co.result]
    /\ UNCHANGED <<config, now, subs, txs, payments, activated, notified, delivered, response, wh, sw, cc>>


\* ------------------------------------------------- webhooks: lookup part
\* res.sendStatus(200), res.status(200).json(...); res.sendStatus(500)
Success == "200"
ServerError == "500"

\* An event whose Transaction is not found would be an error of the handler.
NotFoundRaises == ServerError

\* 'Transaction not found': return res.sendStatus(200)
NotFoundResponse == Success

\* The answer when the handler of request w returns: handlePushinPay has answered
\* before it looked anything up.
Answer(w, status) ==
    IF payments[wh[w].payment].gateway = "pushinpay" THEN response ELSE status

\* A delivery goes to the first free request slot.
FreeWorker(w) == wh[w].pc = "idle" /\ \A v \in Workers : v < w => wh[v].pc # "idle"

\* The handler found its Transaction (with its Subscription included) and calls
\* processPaymentStatus(transaction, gatewayStatus, { paidAt }); bucket is what the
\* provider's own status of the event means.
Found(w, paymentId, byRef, txId, bucket, gatewayStatus, paidAt, nextPc) ==
    wh' = [wh EXCEPT ![w] = [pc |-> nextPc, payment |-> paymentId, byRef |-> byRef,
                             bucket |-> bucket,
                             gatewayStatus |-> gatewayStatus, paidAt |-> paidAt,
                             tx |-> txId, sub |-> txs[txId].subscription_id,
                             seen |-> txs[txId].status]]

\* The event dates the provider may send with a payment: none, or a date up to now.
EventDates == {NULL, now}

\* handleAsaas: by payment id, else by external reference; 200 when nothing is found.
HandleAsaas(w, paymentId, status, paidAt) ==
    /\ FreeWorker(w)
    /\ delivered < MaxDeliveries
    /\ payments[paymentId].gateway = "asaas"
    /\ delivered' = delivered + 1
    /\ LET byId == TxByPaymentId(paymentId)
           subId == FindSubscriptionByExternalRef(payments[paymentId].ref)
           byRef == IF subId = NULL THEN NULL ELSE TxBySubscription(subId)
       IN  IF byId # NULL
           THEN Found(w, paymentId, FALSE, byId, NewStatus(status), status, paidAt, "txUpdate")
           ELSE IF byRef # NULL
           THEN Found(w, paymentId, TRUE, byRef, NewStatus(status), status, paidAt, "txUpdate")
           ELSE UNCHANGED wh
    /\ response' = IF wh' = wh THEN NotFoundResponse ELSE response
    /\ UNCHANGED <<config, now, subs, txs, payments, activated, notified, co, sw, cc>>

\* handlePushinPay: answers 200 at once; by payment id; only a paid event is processed.
HandlePushinPay(w, paymentId, status) ==
    /\ FreeWorker(w)
    /\ delivered < MaxDeliveries
    /\ payments[paymentId].gateway = "pushinpay"
    /\ delivered' = delivered + 1
    /\ LET byId == TxByPaymentId(paymentId)
       IN  IF byId # NULL /\ status = "paid"
           THEN Found(w, paymentId, FALSE, byId, "confirmed", "CONFIRMED", now, "txUpdate")
           ELSE UNCHANGED wh
    /\ response' = Success
    /\ UNCHANGED <<config, now, subs, txs, payments, activated, notified, co, sw, cc>>

\* handleMercadoPago: the payment is fetched from the provider and correlated by its
\* external_reference; failed and refunded are passed on as 'PENDING'.
HandleMercadoPago(w, paymentId, mpStatus) ==
    /\ FreeWorker(w)
    /\ delivered < MaxDeliveries
    /\ payments[paymentId].gateway = "mercadopago"
    /\ delivered' = delivered + 1
    /\ LET subId == FindSubscriptionByExternalRef(payments[paymentId].ref)
           byRef == IF subId = NULL THEN NULL ELSE TxBySubscription(subId)
           ourStatus == MapStatus(mpStatus)
       IN  IF byRef # NULL
           THEN Found(w, paymentId, TRUE, byRef, ourStatus,
                      IF ourStatus = "confirmed" THEN "CONFIRMED" ELSE "PENDING",
                      IF mpStatus = "approved" THEN now ELSE NULL, "mpUpdate")
           ELSE UNCHANGED wh
    /\ response' = IF wh' = wh THEN NotFoundResponse ELSE response
    /\ UNCHANGED <<config, now, subs, txs, payments, activated, notified, co, sw, cc>>

\* A handler that takes every payload for a verified event.
VerifyAnySignature(secret, header) == TRUE

\* StripeService.verifyWebhookSignature: null without a webhook secret, null when
\* constructEvent throws; the event otherwise.
VerifyWebhookSignature(secret, header) == secret /\ header = "valid"

\* res.status(400).send('Invalid signature')
BadRequest == "400"

\* handleStripe: 400 for an unverifiable payload; checkout.session.completed is
\* correlated by metadata.external_reference; every other event type is answered 200.
HandleStripe(w, paymentId, type, header) ==
    /\ FreeWorker(w)
    /\ delivered < MaxDeliveries
    /\ payments[paymentId].gateway = "stripe"
    /\ delivered' = delivered + 1
    /\ signature' = header
    /\ LET subId == FindSubscriptionByExternalRef(payments[paymentId].ref)
           byRef == IF subId = NULL THEN NULL ELSE TxBySubscription(subId)
       IN  IF ~VerifyWebhookSignature(webhookSecret, header)
           THEN wh' = wh /\ response' = BadRequest
           ELSE IF type = "checkout.session.completed" /\ byRef # NULL
           THEN /\ Found(w, paymentId, TRUE, byRef, "confirmed", "CONFIRMED", now, "stUpdate")
                /\ response' = response
           ELSE wh' = wh /\ response' = NotFoundResponse
    /\ UNCHANGED <<gateway_preference, deployed, fixed_fee_amount, webhookSecret, svc,
                   access, mailing, promotion, now, subs, txs, payments, activated, notified, co, sw, cc>>

\* handleStripe: await transaction.update({ gateway_payment_id: sessionId, gateway_status })
StripeUpdate(w) ==
    /\ wh[w].pc = "stUpdate"
    /\ txs' = [txs EXCEPT ![wh[w].tx].gateway_payment_id = wh[w].payment]
    /\ wh' = [wh EXCEPT ![w].pc = "txUpdate"]
    /\ UNCHANGED <<config, now, subs, payments, activated, notified, delivered, response, co, sw, cc>>

\* handleMercadoPago: await transaction.update({ gateway_payment_id, gateway_status })
MercadoPagoUpdate(w) ==
    /\ wh[w].pc = "mpUpdate"
    /\ txs' = [txs EXCEPT ![wh[w].tx].gateway_payment_id = wh[w].payment]
    /\ wh' = [wh EXCEPT ![w].pc = "txUpdate"]
    /\ UNCHANGED <<config, now, subs, payments, activated, notified, delivered, response, co, sw, cc>>

\* ------------------------------------------ webhooks: processPaymentStatus
\* An update that also clears the stored fee.
UpdateTransactionAndFee(row, newStatus, paidAt, date) ==
    [row EXCEPT !.status = newStatus, !.paid_at = NULL, !.amount_platform_fee = NULL]

\* transaction.update({ gateway_status, status, paid_at })
UpdateTransaction(row, newStatus, paidAt, date) ==
    [row EXCEPT !.status = newStatus,
                !.paid_at = IF newStatus = "confirmed"
                            THEN (IF paidAt # NULL THEN paidAt ELSE date)
                            ELSE NULL]

\* expiresAt without the test of the plan's duration.
ExpiresAtOfAnyPlan(planId, date) == date + PlanDuration(planId)

\* expiresAt: null, or new Date() + plan.duration_days when the plan has a duration.
ExpiresAt(planId, date) ==
    IF planId # NULL /\ PlanDuration(planId) > 0 THEN date + PlanDuration(planId) ELSE NULL

\* subscription.update({ status: 'active', starts_at, expires_at })
ActivateSubscription(row, date) ==
    [row EXCEPT !.status = "active", !.starts_at = date,
                !.expires_at = ExpiresAt(row.plan_id, date)]

\* subscription.update({ status: 'failed' })
FailSubscription(row) == [row EXCEPT !.status = "failed"]

ProcessTransaction(w) ==
    /\ wh[w].pc = "txUpdate"
    /\ txs' = [txs EXCEPT ![wh[w].tx] =
                 UpdateTransaction(@, NewStatus(wh[w].gatewayStatus), wh[w].paidAt, now)]
    /\ wh' = [wh EXCEPT ![w] = IF NewStatus(wh[w].gatewayStatus) = "pending"
                               THEN IdleWebhook ELSE [@ EXCEPT !.pc = "subUpdate"]]
    /\ response' = IF NewStatus(wh[w].gatewayStatus) = "pending"
                   THEN Answer(w, Success) ELSE response
    /\ UNCHANGED <<config, now, subs, payments, activated, notified, delivered, co, sw, cc>>

ProcessSubscription(w) ==
    /\ wh[w].pc = "subUpdate"
    /\ IF NewStatus(wh[w].gatewayStatus) = "confirmed"
       THEN /\ subs' = [subs EXCEPT ![wh[w].sub] = ActivateSubscription(@, now)]
            /\ activated' = [activated EXCEPT ![wh[w].sub] = @ + 1]
            /\ wh' = [wh EXCEPT ![w].pc = "notify"]
            /\ UNCHANGED response
       ELSE /\ subs' = [subs EXCEPT ![wh[w].sub] = FailSubscription(@)]
            /\ wh' = [wh EXCEPT ![w] = IdleWebhook]
            /\ response' = Answer(w, Success)
            /\ UNCHANGED activated
    /\ UNCHANGED <<config, now, txs, payments, notified, delivered, co, sw, cc>>

\* await TelegramEngine.notifySubscriptionActivated(subscription)
NotifyActivated(w) ==
    /\ wh[w].pc = "notify"
    /\ notified' = [notified EXCEPT ![wh[w].sub] = @ + 1]
    /\ wh' = [wh EXCEPT ![w] = IdleWebhook]
    /\ response' = Answer(w, Success)
    /\ UNCHANGED <<config, now, subs, txs, payments, activated, delivered, co, sw, cc>>

\* An awaited write of the handler (transaction.update, subscription.update)
\* rejects: the handler's catch answers 500, handlePushinPay's only logs.
WebhookFails(w) ==
    /\ wh[w].pc \in {"mpUpdate", "stUpdate", "txUpdate", "subUpdate"}
    /\ wh' = [wh EXCEPT ![w] = IdleWebhook]
    /\ response' = Answer(w, ServerError)
    /\ UNCHANGED <<config, now, subs, txs, payments, activated, notified, delivered, co, sw, cc>>

\* ------------- webhooks: SyncPayService / ParadisePagService.handleWebhook
HostedServices == {"syncpay", "paradisepag"}

\* if (status === 'paid' || status === 'approved'), if (status === 'success' || ...)
PaidStatuses(service) ==
    IF service = "syncpay" THEN {"paid", "approved"} ELSE {"success", "paid"}

\* Transaction.findOne({ where: { gateway_id: id } }): the Transaction that recorded
\* the provider's id of the payment.
TxByGatewayId(id) == TxByPaymentId(id)

\* handleSyncPay, handleParadisePag: the service's handleWebhook acts on a paid event
\* whose Transaction is pending; everything else is answered { received: true }.
HandleWebhook(w, service, paymentId, status) ==
    /\ FreeWorker(w)
    /\ delivered < MaxDeliveries
    /\ delivered' = delivered + 1
    /\ LET txId == TxByGatewayId(paymentId)
       IN  IF status \in PaidStatuses(service) /\ txId # NULL /\ txs[txId].status = "pending"
           THEN /\ Found(w, paymentId, FALSE, txId, "confirmed", "", now, "gwUpdate")
                /\ response' = response
           ELSE wh' = wh /\ response' = Success
    /\ UNCHANGED <<config, now, subs, txs, payments, activated, notified, co, sw, cc>>

\* await transaction.update({ status: 'confirmed', paid_at: new Date() })
GatewayUpdate(w) ==
    /\ wh[w].pc = "gwUpdate"
    /\ txs' = [txs EXCEPT ![wh[w].tx].status = "confirmed", ![wh[w].tx].paid_at = now]
    /\ wh' = [wh EXCEPT ![w].pc = "gwActivate"]
    /\ UNCHANGED <<config, now, subs, payments, activated, notified, delivered, response, co, sw, cc>>

\* await Subscription.findByPk(...); await subscription.activate(): the model has no
\* method activate (isActive is its only instance method), the call raises a
\* TypeError and the controller's catch answers 500.
GatewayActivate(w) ==
    /\ wh[w].pc = "gwActivate"
    /\ wh' = [wh EXCEPT ![w] = IdleWebhook]
    /\ response' = ServerError
    /\ UNCHANGED <<config, now, subs, txs, payments, activated, notified, delivered, co, sw, cc>>

HostedEventStatuses == {"paid", "pending"}

AsaasEventStatuses == {"CONFIRMED", "PENDING", "OVERDUE"}
PushinPayEventStatuses == {"created", "paid"}
MercadoPagoEventStatuses == {"approved", "pending", "rejected"}
StripeEventTypes == {"checkout.session.completed", "payment_intent.payment_failed"}
StripeSignatures == {"valid", "forged"}


\* ------------------------------- the sweep: processExpiredSubscriptions
\* The where clause without its [Op.not]: null.
ExpiredSubscriptionsByDate(date) ==
    {s \in SubIds : subs[s].status = "active" /\ subs[s].expires_at < date}

\* where: { status: 'active', expires_at: { [Op.not]: null, [Op.lt]: now } }
ExpiredSubscriptions(date) ==
    {s \in SubIds : /\ subs[s].status = "active"
                    /\ subs[s].expires_at # NULL
                    /\ subs[s].expires_at < date}

\* An update that writes nothing.
KeepSubscription(row) == row

\* subscription.update({ status: 'expired' })
ExpireSubscription(row) == [row EXCEPT !.status = "expired"]

FreeRun(r) == sw[r].pc = "idle" /\ \A q \in Runs : q < r => sw[q].pc # "idle"

\* The for loop after item s: the next item, or the end of the run.
AfterItem(run, s) ==
    IF run.batch = {s} THEN IdleSweep
    ELSE [run EXCEPT !.pc = "update", !.batch = @ \ {s}, !.cur = NULL]

\* A loop whose item's error leaves the loop.
AbortRun(run, s) == IdleSweep

\* catch (error) inside the loop: the error is logged and the loop goes on.
AfterError(run, s) == AfterItem([run EXCEPT !.failed = @ \cup {s}], s)

\* const now = new Date(); await Subscription.findAll(...)
SweepFind(r) ==
    /\ FreeRun(r)
    /\ sw' = [sw EXCEPT ![r] = [pc |-> "update", found |-> ExpiredSubscriptions(now),
                                batch |-> ExpiredSubscriptions(now), failed |-> {},
                                cur |-> NULL]]
    /\ UNCHANGED <<config, now, subs, txs, payments, activated, notified, delivered, response, co, wh, cc>>

\* if (expiredSubscriptions.length === 0) return
SweepReturn(r) ==
    /\ sw[r].pc = "update"
    /\ sw[r].batch = {}
    /\ sw' = [sw EXCEPT ![r] = IdleSweep]
    /\ UNCHANGED <<config, now, subs, txs, payments, activated, notified, delivered, response, co, wh, cc>>

\* for (const subscription of expiredSubscriptions): await subscription.update(...)
SweepUpdate(r, s) ==
    /\ sw[r].pc = "update"
    /\ s \in sw[r].batch
    /\ subs' = [subs EXCEPT ![s] = ExpireSubscription(@)]
    /\ sw' = [sw EXCEPT ![r].pc = "notify", ![r].cur = s]
    /\ UNCHANGED <<config, now, txs, payments, activated, notified, delivered, response, co, wh, cc>>

\* await subscription.update(...) rejects: the item's catch logs the error.
SweepUpdateFails(r, s) ==
    /\ sw[r].pc = "update"
    /\ s \in sw[r].batch
    /\ sw' = [sw EXCEPT ![r] = AfterError(@, s)]
    /\ UNCHANGED <<config, now, subs, txs, payments, activated, notified, delivered, response, co, wh, cc>>

\* await TelegramEngine.notifySubscriptionExpired(subscription), which catches its
\* own errors (sent or not, the call returns); next item or done.
SweepNotify(r, sent) ==
    /\ sw[r].pc = "notify"
    /\ sw' = [sw EXCEPT ![r] = AfterItem(@, sw[r].cur)]
    /\ UNCHANGED <<config, now, subs, txs, payments, activated, notified, delivered, response, co, wh, cc>>


\* ------------------------------------- the cancel_confirm_<id> callback
\* subscription.update({ status: 'cancelled' })
CancelSubscription(row) == [row EXCEPT !.status = "cancelled"]

\* An ownership test that everybody passes.
OwnedByAnyone(row, telegramId) == TRUE

\* subscription.user_telegram_id !== ctx.from.id.toString(), negated
OwnedBy(row, telegramId) == ToString(row.user_telegram_id) = ToString(telegramId)

\* await Subscription.findByPk(subscriptionId); not the user's own: answer and return.
CancelFind(s, telegramId) ==
    /\ cc.pc = "idle"
    /\ OwnedBy(subs[s], telegramId)
    /\ cc' = [pc |-> "update", sub |-> s, user |-> telegramId]
    /\ UNCHANGED <<config, now, subs, txs, payments, activated, notified, delivered, response, co, wh, sw>>

\* await subscription.update(...), then banChatMember / unbanChatMember of the
\* acting user (their errors are caught) and the answer.
CancelUpdate ==
    /\ cc.pc = "update"
    /\ subs' = [subs EXCEPT ![cc.sub] = CancelSubscription(@)]
    /\ cc' = IdleCancel
    /\ UNCHANGED <<config, now, txs, payments, activated, notified, delivered, response, co, wh, sw>>


\* return ctx.answerCbQuery('Assinatura nao encontrada'): the callback of a user who
\* is not the Subscription's.
CancelRefuse(s, telegramId) ==
    /\ cc.pc = "idle"
    /\ ~OwnedBy(subs[s], telegramId)
    /\ access' = [command |-> "cancel_confirm", user |-> telegramId, sub |-> s,
                  link |-> FALSE]
    /\ UNCHANGED <<gateway_preference, deployed, fixed_fee_amount, webhookSecret, signature,
                   svc, mailing, promotion, now, subs, txs, payments, activated, notified, delivered,
                   response, co, wh, sw, cc>>

\* --------------------------------------- the /cancelar and /grupo commands
\* A validity test that looks at the status only.
IsActiveByStatus(row, date) == row.status = "active"

\* Subscription.prototype.isActive: active, and no expires_at or new Date() < expires_at.
IsActive(row, date) ==
    /\ row.status = "active"
    /\ (row.expires_at = NULL \/ date < row.expires_at)

\* getUserActiveSubscription: the newest active row of the user among the bot's
\* plans, when it isActive(); null otherwise.
GetUserActiveSubscription(telegramId) ==
    LET hit == {s \in SubIds : /\ ToString(subs[s].user_telegram_id) = ToString(telegramId)
                               /\ subs[s].plan_id \in PlanIds
                               /\ subs[s].status = "active"}
    IN  IF hit # {} /\ IsActive(subs[Max(hit)], now) THEN Max(hit) ELSE NULL

\* /cancelar: the button cancel_confirm_<id> for the user's active subscription, or
\* 'nao possui assinatura ativa'.
CancelarCommand(telegramId) ==
    /\ access' = [command |-> "cancelar", user |-> telegramId,
                  sub |-> GetUserActiveSubscription(telegramId), link |-> FALSE]
    /\ UNCHANGED <<gateway_preference, deployed, fixed_fee_amount, webhookSecret, signature,
                   svc, mailing, promotion, now, subs, txs, payments, activated, notified, delivered,
                   response, co, wh, sw, cc>>

\* /grupo: without a subscription 'Acesso Negado'; without a channel_id no link;
\* else createChatInviteLink, whose error is caught and answered without a link.
GrupoCommand(telegramId, channelConfigured, linkFails) ==
    /\ access' = [command |-> "grupo", user |-> telegramId,
                  sub |-> GetUserActiveSubscription(telegramId),
                  link |-> /\ GetUserActiveSubscription(telegramId) # NULL
                           /\ channelConfigured /\ ~linkFails]
    /\ UNCHANGED <<gateway_preference, deployed, fixed_fee_amount, webhookSecret, signature,
                   svc, mailing, promotion, now, subs, txs, payments, activated, notified, delivered,
                   response, co, wh, sw, cc>>

\* ------------------------------------------ the mailing queue: QueueService
\* What the queue leaves alone.
business == <<gateway_preference, deployed, fixed_fee_amount, webhookSecret, signature, svc,
             access, promotion, now, subs, txs, payments, activated, notified, delivered, response,
             co, wh, sw, cc>>

\* findAll({ where: { status: 'pending' }, limit: 50 })
BatchLimit == 50

\* Broadcast.filter_status: the Subscription status a broadcast selects.
FilterStatuses == {"all", "pending"}
QueryStatus(filter) == IF filter = "pending" THEN "pending" ELSE "active"

\* Subscription.findAll({ where: query, group: ['user_telegram_id'] })
Recipients(filter) ==
    {subs[s].user_telegram_id : s \in {x \in SubIds : subs[x].status = QueryStatus(filter)}}

\* items: one pending BroadcastItem per recipient.
RECURSIVE ItemsFor(_, _)
ItemsFor(b, users) ==
    IF users = {} THEN <<>>
    ELSE <<[broadcast_id |-> b, user_telegram_id |-> Min(users), status |-> "pending",
            sends |-> 0]>> \o ItemsFor(b, users \ {Min(users)})

\* A Broadcast row with status 'queued' is stored.
QueueBroadcast(filter) ==
    /\ Len(broadcasts) < MaxBroadcasts
    /\ broadcasts' = Append(broadcasts, [status |-> "queued", filter_status |-> filter])
    /\ UNCHANGED <<business, isProcessing, items, qrun, lastTick>>

\* A guard that lets every tick through.
NeverBusy(flag) == FALSE

\* if (this.isProcessing) return
Busy(flag) == flag

FreeQueueRun(r) == qrun[r].pc = "idle" /\ \A q \in Runs : q < r => qrun[q].pc # "idle"

\* processQueue, up to its first await: the cron tick of every minute.
ProcessQueue(r) ==
    /\ FreeQueueRun(r)
    /\ IF Busy(isProcessing)
       THEN /\ lastTick' = "skipped"
            /\ UNCHANGED <<isProcessing, qrun>>
       ELSE /\ lastTick' = "started"
            /\ isProcessing' = TRUE
            /\ qrun' = [qrun EXCEPT ![r] = [IdleRun EXCEPT !.pc = "drafts"]]
    /\ UNCHANGED <<business, broadcasts, items>>

\* finally { this.isProcessing = false }
EndRun(r) ==
    /\ qrun' = [qrun EXCEPT ![r] = IdleRun]
    /\ isProcessing' = FALSE

\* An awaited call outside the try of an item or a broadcast rejects (a findAll, the
\* update inside a catch): processQueue's catch logs it, then finally.
RunFails(r) ==
    /\ qrun[r].pc \in {"drafts", "draft", "pending", "markFailed", "countFailed"}
    /\ EndRun(r)
    /\ UNCHANGED <<business, broadcasts, items, lastTick>>

\* processDrafts: Broadcast.findAll({ where: { status: 'queued' } })
DraftsFind(r) ==
    /\ qrun[r].pc = "drafts"
    /\ LET found == {b \in 1..Len(broadcasts) : broadcasts[b].status = "queued"}
       IN  qrun' = [qrun EXCEPT ![r].drafts = found,
                                ![r].pc = IF found = {} THEN "pending" ELSE "draft"]
    /\ UNCHANGED <<business, isProcessing, broadcasts, items, lastTick>>

\* The for loop of processDrafts after broadcast b.
AfterDraft(rec, b) ==
    [rec EXCEPT !.drafts = @ \ {b}, !.pc = IF rec.drafts = {b} THEN "pending" ELSE "draft"]

\* update processing, Subscription.findAll, BroadcastItem.bulkCreate, update sending
DraftQueue(r, b) ==
    /\ qrun[r].pc = "draft"
    /\ b = Min(qrun[r].drafts)
    /\ items' = items \o ItemsFor(b, Recipients(broadcasts[b].filter_status))
    /\ broadcasts' = [broadcasts EXCEPT ![b].status = "sending"]
    /\ qrun' = [qrun EXCEPT ![r] = AfterDraft(@, b)]
    /\ UNCHANGED <<business, isProcessing, lastTick>>

\* catch: broadcast.update({ status: 'failed', error_log })
DraftFails(r, b) ==
    /\ qrun[r].pc = "draft"
    /\ b = Min(qrun[r].drafts)
    /\ broadcasts' = [broadcasts EXCEPT ![b].status = "failed"]
    /\ qrun' = [qrun EXCEPT ![r] = AfterDraft(@, b)]
    /\ UNCHANGED <<business, isProcessing, items, lastTick>>


\* processPendingItems: BroadcastItem.findAll of the pending items, 50 at most;
\* if (items.length === 0) return.
PendingItems ==
    LET pending == {i \in 1..Len(items) : items[i].status = "pending"}
    IN  {i \in pending : Cardinality({j \in pending : j < i}) < BatchLimit}

PendingFind(r) ==
    /\ qrun[r].pc = "pending"
    /\ IF PendingItems = {}
       THEN EndRun(r)
       ELSE /\ qrun' = [qrun EXCEPT ![r].pc = "item", ![r].batch = PendingItems]
            /\ UNCHANGED isProcessing
    /\ UNCHANGED <<business, broadcasts, items, lastTick>>

\* The for loop of processPendingItems after item i: the next item, or the end of the
\* run and finally.
AfterQueueItem(r, i) ==
    IF qrun[r].batch = {i}
    THEN EndRun(r)
    ELSE /\ qrun' = [qrun EXCEPT ![r].pc = "item", ![r].batch = @ \ {i}, ![r].cur = NULL]
         /\ UNCHANGED isProcessing

\* Subscription.findOne({ where: { user_telegram_id, status: 'active' } })
HasActiveBot(telegramId) ==
    \E s \in SubIds : subs[s].user_telegram_id = telegramId /\ subs[s].status = "active"

\* The item's turn: without an active subscription of the user, or without a
\* registered bot instance, the item is failed; else the message is sent next.
ItemBegin(r, i, botRegistered) ==
    /\ qrun[r].pc = "item"
    /\ i = Min(qrun[r].batch)
    /\ IF HasActiveBot(items[i].user_telegram_id) /\ botRegistered
       THEN /\ qrun' = [qrun EXCEPT ![r].pc = "send", ![r].cur = i]
            /\ UNCHANGED <<isProcessing, items>>
       ELSE /\ items' = [items EXCEPT ![i].status = "failed"]
            /\ AfterQueueItem(r, i)
    /\ UNCHANGED <<business, broadcasts, lastTick>>

\* await telegrafBot.telegram.sendMessage(...): Telegram takes the message, or the
\* call rejects and the item's catch runs.
ItemSend(r, ok) ==
    /\ qrun[r].pc = "send"
    /\ items[qrun[r].cur].sends < MaxSends
    /\ items' = IF ok THEN [items EXCEPT ![qrun[r].cur].sends = @ + 1] ELSE items
    /\ qrun' = [qrun EXCEPT ![r].pc = IF ok THEN "markSent" ELSE "markFailed"]
    /\ UNCHANGED <<business, isProcessing, broadcasts, lastTick>>

\* await item.update({ status: 'sent' }), or it rejects and the item's catch runs.
ItemMarkSent(r, ok) ==
    /\ qrun[r].pc = "markSent"
    /\ items' = IF ok THEN [items EXCEPT ![qrun[r].cur].status = "sent"] ELSE items
    /\ qrun' = [qrun EXCEPT ![r].pc = IF ok THEN "increment" ELSE "markFailed"]
    /\ UNCHANGED <<business, isProcessing, broadcasts, lastTick>>

\* await broadcast.increment('sent_count'), or it rejects and the item's catch runs.
ItemIncrement(r, ok) ==
    /\ qrun[r].pc = "increment"
    /\ IF ok THEN AfterQueueItem(r, qrun[r].cur)
       ELSE /\ qrun' = [qrun EXCEPT ![r].pc = "markFailed"]
            /\ UNCHANGED isProcessing
    /\ UNCHANGED <<business, broadcasts, items, lastTick>>

\* catch: await item.update({ status: 'failed', error_message })
ItemMarkFailed(r) ==
    /\ qrun[r].pc = "markFailed"
    /\ items' = [items EXCEPT ![qrun[r].cur].status = "failed"]
    /\ qrun' = [qrun EXCEPT ![r].pc = "countFailed"]
    /\ UNCHANGED <<business, isProcessing, broadcasts, lastTick>>

\* catch: await item.broadcast.increment('failed_count')
ItemCountFailed(r) ==
    /\ qrun[r].pc = "countFailed"
    /\ AfterQueueItem(r, qrun[r].cur)
    /\ UNCHANGED <<business, broadcasts, items, lastTick>>

\* ------------------------------------------- PUT /admin/settings
\* Setting.upsert({ key: 'fixed_fee_amount', value })
SetFixedFee(fee) ==
    /\ fee # fixed_fee_amount
    /\ fixed_fee_amount' = fee
    /\ UNCHANGED <<gateway_preference, deployed, webhookSecret, signature, svc, access,
                   mailing, promotion, now, subs, txs, payments, activated, notified, delivered,
                   response, co, wh, sw, cc>>

\* ------------------------------------- direct calls of PaymentService
\* The gateways whose adapter has a subscription call of its own.
NativeRecurring == {"asaas", "mercadopago", "stripe"}

\* await PaymentService.getPlatformFee()
GetPlatformFeeCall(readFails) ==
    /\ svc' = [NoCall EXCEPT !.op = "getPlatformFee", !.setting = fixed_fee_amount,
                             !.readFails = readFails,
                             !.fee = GetPlatformFee(fixed_fee_amount, readFails)]
    /\ UNCHANGED <<gateway_preference, deployed, fixed_fee_amount, webhookSecret, signature,
                   access, mailing, promotion, now, subs, txs, payments, activated, notified, delivered,
                   response, co, wh, sw, cc>>

\* await PaymentService.calculateSplit(amount)
CalculateSplitCall(amount, readFails) ==
    /\ svc' = [NoCall EXCEPT !.op = "calculateSplit", !.amount = amount,
                             !.setting = fixed_fee_amount, !.readFails = readFails,
                             !.fee = GetPlatformFee(fixed_fee_amount, readFails),
                             !.split = CalculateSplit(amount,
                                          GetPlatformFee(fixed_fee_amount, readFails))]
    /\ UNCHANGED <<gateway_preference, deployed, fixed_fee_amount, webhookSecret, signature,
                   access, mailing, promotion, now, subs, txs, payments, activated, notified, delivered,
                   response, co, wh, sw, cc>>

\* await PaymentService.createSubscription(gateway, subscriptionData, creatorWalletId)
CreateSubscriptionCall(gateway) ==
    /\ svc' = [NoCall EXCEPT !.op = "createSubscription", !.gateway = gateway,
                             !.outcome = CreateSubscription(gateway)]
    /\ UNCHANGED <<gateway_preference, deployed, fixed_fee_amount, webhookSecret, signature,
                   access, mailing, promotion, now, subs, txs, payments, activated, notified, delivered,
                   response, co, wh, sw, cc>>

\* --------------------------------------- the promotion programme: AuthController
\* Everything but the promotion fields and the clock.
shop == <<gateway_preference, deployed, fixed_fee_amount, webhookSecret, signature, svc,
         access, mailing, subs, txs, payments, activated, notified, delivered, response,
         co, wh, sw, cc>>

\* The days of a month, taken as the same for every month; day 1 is the first of one.
MonthDays == 30
\* startedAt.getTime() + 30 * 24 * 60 * 60 * 1000
MinPromotionDays == 30
\* promotions_used_this_month >= 3
MonthlySlots == 3
\* The days that pass between two requests.
DaySteps == {10}

\* new Date(now.getFullYear(), now.getMonth() + 1, 1): the first day of the next month.
NextMonth(date) == ((date - 1) \div MonthDays + 1) * MonthDays + 1

PassDays(days) ==
    /\ \A q \in Workers : sp[q].pc = "idle"
    /\ now + days <= MaxMonths * MonthDays + 1
    /\ now' = now + days
    /\ UNCHANGED <<shop, promotion>>

\* completeOnboarding: no look at onboarding_completed; promotion_ends_at is not in
\* the update.
CompleteOnboarding(feeType) ==
    /\ creator' = [creator EXCEPT
                      !.promotion_active = (feeType = "promotion"),
                      !.promotion_started_at = IF feeType = "promotion" THEN now ELSE NULL,
                      !.promotions_used_this_month = 0,
                      !.promotions_reset_at = NextMonth(now)]
    /\ UNCHANGED <<shop, now, sp, answer>>

\* activatePromotion: 400 when the promotion is active already.
ActivatePromotion ==
    /\ creator' = IF creator.promotion_active THEN creator
                  ELSE [promotion_active |-> TRUE, promotion_started_at |-> now,
                        promotion_ends_at |-> NULL, promotions_used_this_month |-> 0,
                        promotions_reset_at |-> NextMonth(now)]
    /\ UNCHANGED <<shop, now, sp, answer>>

\* deactivatePromotion: 400 when the promotion is not active; before minEndDate only
\* promotion_ends_at is written; new Date(null) is a day before every day of the model.
DeactivatePromotion ==
    LET minEndDate == IF creator.promotion_started_at = NULL THEN NULL
                      ELSE creator.promotion_started_at + MinPromotionDays
    IN /\ creator' = IF ~creator.promotion_active THEN creator
                     ELSE IF now < minEndDate
                          THEN [creator EXCEPT !.promotion_ends_at = minEndDate]
                          ELSE [creator EXCEPT !.promotion_active = FALSE,
                                               !.promotion_started_at = NULL,
                                               !.promotion_ends_at = NULL]
       /\ UNCHANGED <<shop, now, sp, answer>>

\* getPromotionStatus: the monthly reset when it is due, then the scheduled end when
\* it is due.
GetPromotionStatus ==
    LET resetDue == creator.promotions_reset_at # NULL /\ now >= creator.promotions_reset_at
        afterReset == IF resetDue
                      THEN [creator EXCEPT !.promotions_used_this_month = 0,
                                           !.promotions_reset_at = NextMonth(now)]
                      ELSE creator
        endDue == creator.promotion_ends_at # NULL /\ now >= creator.promotion_ends_at
    IN /\ creator' = IF endDue
                     THEN [afterReset EXCEPT !.promotion_active = FALSE,
                                             !.promotion_started_at = NULL,
                                             !.promotion_ends_at = NULL]
                     ELSE afterReset
       /\ UNCHANGED <<shop, now, sp, answer>>

\* submitPromotion up to its first write: findByPk; 400 PROMOTION_NOT_ACTIVE; whether
\* the monthly reset is due.
SubmitFind(q) ==
    /\ sp[q].pc = "idle"
    /\ IF ~creator.promotion_active
       THEN /\ answer' = "PROMOTION_NOT_ACTIVE"
            /\ sp' = sp
       ELSE /\ sp' = [sp EXCEPT ![q] =
                        [pc |-> IF /\ creator.promotions_reset_at # NULL
                                   /\ now >= creator.promotions_reset_at
                                THEN "reset" ELSE "check",
                         used |-> creator.promotions_used_this_month]]
            /\ answer' = answer
    /\ UNCHANGED <<shop, now, creator>>

\* user.update({ promotions_used_this_month: 0, promotions_reset_at: nextMonth })
SubmitReset(q) ==
    /\ sp[q].pc = "reset"
    /\ creator' = [creator EXCEPT !.promotions_used_this_month = 0,
                                  !.promotions_reset_at = NextMonth(now)]
    /\ sp' = [sp EXCEPT ![q] = [pc |-> "check", used |-> 0]]
    /\ UNCHANGED <<shop, now, answer>>

NoLimit(used) == FALSE
\* if (user.promotions_used_this_month >= 3)
LimitReached(used) == used >= MonthlySlots

\* 400 LIMIT_REACHED, or user.update({ promotions_used_this_month: used + 1 }) on the
\* instance the request holds.
SubmitIncrement(q) ==
    /\ sp[q].pc = "check"
    /\ IF LimitReached(sp[q].used)
       THEN /\ answer' = "LIMIT_REACHED"
            /\ creator' = creator
       ELSE /\ answer' = "ok"
            /\ creator' = [creator EXCEPT !.promotions_used_this_month = sp[q].used + 1]
    /\ sp' = [sp EXCEPT ![q] = IdleSubmit]
    /\ UNCHANGED <<shop, now>>

\* CronService.resetMonthlyPromotions, at midnight of the first day of a month:
\* User.update where promotion_active.
ResetMonthlyPromotions ==
    /\ (now - 1) % MonthDays = 0
    /\ creator' = IF creator.promotion_active
                  THEN [creator EXCEPT !.promotions_used_this_month = 0,
                                       !.promotions_reset_at = NextMonth(now)]
                  ELSE creator
    /\ UNCHANGED <<shop, now, sp, answer>>

\* ------------------------------------------------------- start of the server
\* start(): syncDatabase(true) drops and recreates every table; the handlers of the
\* process that ran before are gone.  The creator and the plans are taken as
\* registered again; the provider keeps its payments.
ServerStart ==
    /\ fixed_fee_amount' = NULL
    /\ subs' = <<>>
    /\ txs' = <<>>
    /\ activated' = <<>>
    /\ notified' = <<>>
    /\ co' = IdleCheckout
    /\ wh' = [w \in Workers |-> IdleWebhook]
    /\ sw' = [r \in Runs |-> IdleSweep]
    /\ cc' = IdleCancel
    /\ isProcessing' = FALSE
    /\ broadcasts' = <<>>
    /\ items' = <<>>
    /\ qrun' = [r \in Runs |-> IdleRun]
    /\ creator' = NoPromotion
    /\ sp' = [q \in Workers |-> IdleSubmit]
    /\ UNCHANGED <<gateway_preference, deployed, webhookSecret, signature, svc, access,
                   lastTick, answer, now, payments, delivered, response>>

\* ---------------------------------------------------------- specifications
\* No request, sweep or callback is between two of its awaits.
Quiescent ==
    /\ co.pc = "idle"
    /\ cc.pc = "idle"
    /\ \A w \in Workers : wh[w].pc = "idle"
    /\ \A r \in Runs : sw[r].pc = "idle"

\* A request, a sweep or a callback enters its handler.
Start(limit) ==
    \/ \E p \in PlanIds, u \in Users : CheckoutBegin(limit, p, u, NULL, TRUE)
    \/ \E w \in Workers, p \in 1..Len(payments), st \in AsaasEventStatuses, d \in EventDates :
          HandleAsaas(w, p, st, d)
    \/ \E w \in Workers, p \in 1..Len(payments), st \in PushinPayEventStatuses :
          HandlePushinPay(w, p, st)
    \/ \E w \in Workers, p \in 1..Len(payments), st \in MercadoPagoEventStatuses :
          HandleMercadoPago(w, p, st)
    \/ \E w \in Workers, p \in 1..Len(payments), ty \in StripeEventTypes,
          sig \in StripeSignatures : HandleStripe(w, p, ty, sig)
    \/ \E r \in Runs : SweepFind(r)
    \/ \E s \in SubIds, u \in Users : CancelFind(s, u)

\* A handler in progress resumes after an await.
Resume ==
    \/ CheckoutAdapterFails
    \/ CheckoutAdapterReturns
    \/ CheckoutCreateSubscription
    \/ CheckoutCreateTransaction
    \/ CheckoutStorageFails
    \/ \E w \in Workers : MercadoPagoUpdate(w)
    \/ \E w \in Workers : StripeUpdate(w)
    \/ \E w \in Workers : ProcessTransaction(w)
    \/ \E w \in Workers : ProcessSubscription(w)
    \/ \E w \in Workers : NotifyActivated(w)
    \/ \E w \in Workers : WebhookFails(w)
    \/ \E r \in Runs : SweepReturn(r)
    \/ \E r \in Runs, s \in SubIds : SweepUpdate(r, s)
    \/ \E r \in Runs, s \in SubIds : SweepUpdateFails(r, s)
    \/ \E r \in Runs, sent \in BOOLEAN : SweepNotify(r, sent)
    \/ CancelUpdate

\* Serial executions: a handler starts, and a day passes, when no handler is in
\* progress.
Next == (Quiescent /\ Tick) \/ (Quiescent /\ Start(MaxSubs)) \/ Resume

Spec == Init /\ [][Next]_vars

\* Serial executions with Subscriptions that compete for a webhook.
NextPair == (Quiescent /\ Tick) \/ (Quiescent /\ Start(MaxPairSubs)) \/ Resume

SpecPair == Init /\ [][NextPair]_vars

\* Every interleaving of the handlers at their awaits.
NextRace == Tick \/ Start(MaxSubs) \/ Resume

SpecRace == Init /\ [][NextRace]_vars

\* Checkouts while the administrator edits the platform settings.
NextSplit ==
    \/ \E fee \in Fees : SetFixedFee(fee)
    \/ \E p \in PlanIds, u \in Users : CheckoutBegin(MaxSubs, p, u, NULL, TRUE)
    \/ CheckoutAdapterFails
    \/ CheckoutAdapterReturns
    \/ CheckoutCreateSubscription
    \/ CheckoutCreateTransaction
    \/ CheckoutStorageFails

SpecSplit == Init /\ [][NextSplit]_vars

\* Checkouts for a plan or an offer, with and without the creator's token, under
\* every gateway name.
NextCheckout ==
    \/ \E p \in PlanIds \cup {NULL}, u \in Users, a \in OfferAmounts \cup {NULL},
          token \in BOOLEAN : CheckoutBegin(MaxSubs, p, u, a, token)
    \/ CheckoutAdapterFails
    \/ CheckoutAdapterReturns
    \/ CheckoutCreateSubscription
    \/ CheckoutCreateTransaction
    \/ CheckoutStorageFails

SpecCheckout == InitWith(GatewayNames) /\ [][NextCheckout]_vars

\* Calls of the PaymentService methods while the administrator edits the fee.
NextService ==
    \/ \E fee \in Fees \cup SubCentFees : SetFixedFee(fee)
    \/ \E readFails \in BOOLEAN : GetPlatformFeeCall(readFails)
    \/ \E a \in Amounts, readFails \in BOOLEAN : CalculateSplitCall(a, readFails)
    \/ \E g \in Gateways : CreateSubscriptionCall(g)

SpecService == Init /\ [][NextService]_vars

\* Serial executions while the administrator edits the fee.
NextFees == Next \/ \E fee \in Fees : SetFixedFee(fee)

SpecFees == Init /\ [][NextFees]_vars

\* Serial executions of a server that is started again.
NextRestart == Next \/ ServerStart

SpecRestart == Init /\ [][NextRestart]_vars

\* Serial executions with the commands of the bot and the callbacks it refuses.
NextBot ==
    \/ Next
    \/ Quiescent /\ \E u \in Users, channelConfigured \in BOOLEAN, linkFails \in BOOLEAN :
                       GrupoCommand(u, channelConfigured, linkFails)
    \/ Quiescent /\ \E u \in Users : CancelarCommand(u)
    \/ Quiescent /\ \E s \in SubIds, u \in Users : CancelRefuse(s, u)

SpecBot == Init /\ [][NextBot]_vars

\* The promotion programme of one creator: its requests, the monthly cron and the days.
NextPromotion ==
    \/ \E days \in DaySteps : PassDays(days)
    \/ \E feeType \in {"standard", "promotion"} : CompleteOnboarding(feeType)
    \/ ActivatePromotion
    \/ DeactivatePromotion
    \/ GetPromotionStatus
    \/ ResetMonthlyPromotions
    \/ \E q \in Workers : SubmitFind(q)
    \/ \E q \in Workers : SubmitReset(q)
    \/ \E q \in Workers : SubmitIncrement(q)

SpecPromotion == Init /\ [][NextPromotion]_vars

\* The mailing queue beside checkouts and PushinPay deliveries: the cron ticks and the
\* steps of a run interleave with everything else.
NextQueue ==
    \/ Quiescent /\ \E p \in PlanIds, u \in Users : CheckoutBegin(MaxSubs, p, u, NULL, TRUE)
    \/ CheckoutAdapterFails
    \/ CheckoutAdapterReturns
    \/ CheckoutCreateSubscription
    \/ CheckoutCreateTransaction
    \/ CheckoutStorageFails
    \/ Quiescent /\ \E w \in Workers, p \in 1..Len(payments), st \in PushinPayEventStatuses :
                       HandlePushinPay(w, p, st)
    \/ \E w \in Workers : ProcessTransaction(w)
    \/ \E w \in Workers : ProcessSubscription(w)
    \/ \E w \in Workers : NotifyActivated(w)
    \/ \E w \in Workers : WebhookFails(w)
    \/ \E filter \in FilterStatuses : QueueBroadcast(filter)
    \/ \E r \in Runs : ProcessQueue(r)
    \/ \E r \in Runs : RunFails(r)
    \/ \E r \in Runs : DraftsFind(r)
    \/ \E r \in Runs, b \in 1..Len(broadcasts) : DraftQueue(r, b)
    \/ \E r \in Runs, b \in 1..Len(broadcasts) : DraftFails(r, b)
    \/ \E r \in Runs : PendingFind(r)
    \/ \E r \in Runs, i \in 1..Len(items), botRegistered \in BOOLEAN :
          ItemBegin(r, i, botRegistered)
    \/ \E r \in Runs, ok \in BOOLEAN : ItemSend(r, ok)
    \/ \E r \in Runs, ok \in BOOLEAN : ItemMarkSent(r, ok)
    \/ \E r \in Runs, ok \in BOOLEAN : ItemIncrement(r, ok)
    \/ \E r \in Runs : ItemMarkFailed(r)
    \/ \E r \in Runs : ItemCountFailed(r)

SpecQueue == Init /\ [][NextQueue]_vars

\* Checkouts, and deliveries to the SyncPay and ParadisePag endpoints, one handler at
\* a time.
NextHosted ==
    \/ Quiescent /\ \E p \in PlanIds, u \in Users : CheckoutBegin(MaxSubs, p, u, NULL, TRUE)
    \/ CheckoutAdapterFails
    \/ CheckoutAdapterReturns
    \/ CheckoutCreateSubscription
    \/ CheckoutCreateTransaction
    \/ CheckoutStorageFails
    \/ Quiescent /\ \E w \in Workers, g \in HostedServices, p \in 1..Len(payments),
                       st \in HostedEventStatuses : HandleWebhook(w, g, p, st)
    \/ \E w \in Workers : GatewayUpdate(w)
    \/ \E w \in Workers : GatewayActivate(w)

SpecHosted == Init /\ [][NextHosted]_vars

\* ------------------------------------------------------------------ claims
\* The request in slot w is inside processPaymentStatus with an event of this bucket.
Reconciling(w, bucket) ==
    wh[w].pc \notin {"idle", "gwUpdate", "gwActivate"} /\ NewStatus(wh[w].gatewayStatus) = bucket

\* C1: a confirmed event reconciled for a Transaction that an earlier delivery has
\* already confirmed leaves the Transaction and the Subscription as they are
\* (status, starts_at, expires_at are not recomputed) and notifies nobody again.
C1_SecondConfirmedIsNoOp ==
    [][\A w \in Workers :
          (Reconciling(w, "confirmed") /\ wh[w].seen = "confirmed")
          => (txs' = txs /\ subs' = subs /\ notified' = notified)]_vars

\* C2: a failed event reconciled after a confirmed one for the same Transaction
\* changes neither the Transaction, which stays confirmed, nor the Subscription.
C2_FailedAfterConfirmedIsNoOp ==
    [][\A w \in Workers :
          (Reconciling(w, "failed") /\ wh[w].seen = "confirmed")
          => (txs' = txs /\ subs' = subs)]_vars

\* The deliveries of a confirmed event in progress that all read the Transaction of
\* Subscription s while it was pending.
Racing(s) ==
    {w \in Workers : Reconciling(w, "confirmed") /\ wh[w].sub = s /\ wh[w].seen = "pending"}

\* C3: when two deliveries of the same confirmed event are processed concurrently,
\* the Subscription is activated (and its expires_at computed) once, so that one
\* activation notification follows.
C3_ConcurrentDeliveriesActivateOnce ==
    \A s \in SubIds : Cardinality(Racing(s)) = 2 => activated[s] <= 1

\* C4: the sweep's write of expired takes effect only on a row that is still active
\* at the moment of the write.
C4_SweepWriteIsStatusGuarded ==
    [][\A r \in Runs, s \in SubIds :
          (sw[r].pc = "update" /\ sw'[r].pc = "notify" /\ sw'[r].cur = s
             /\ subs[s].status # "active")
          => subs'[s] = subs[s]]_vars

\* C5: a confirmed event reconciled for a Transaction whose Subscription is
\* cancelled is rejected: the Subscription stays as it is and nobody is notified.
C5_CancelledIsNotActivated ==
    [][\A w \in Workers :
          (Reconciling(w, "confirmed") /\ subs[wh[w].sub].status = "cancelled")
          => (subs' = subs /\ notified' = notified)]_vars

\* C6: once a confirmed event has been reconciled for a pending Transaction, the
\* Transaction is confirmed with paid_at set and the Subscription is active with
\* starts_at = now and expires_at = now + the plan's duration, or null for a
\* lifetime plan: null or in the future.
C6_ConfirmedActivates ==
    \A w \in Workers :
       (wh[w].pc = "notify" /\ wh[w].seen = "pending")
       => LET tx == txs[wh[w].tx]
              sub == subs[wh[w].sub]
              days == PlanDuration(sub.plan_id)
          IN  /\ tx.status = "confirmed"
              /\ tx.paid_at # NULL
              /\ sub.status = "active"
              /\ sub.starts_at = now
              /\ sub.expires_at = (IF days = 0 THEN NULL ELSE now + days)
              /\ (sub.expires_at = NULL \/ sub.expires_at > now)

C6_Witness ==
    \E w \in Workers :
       /\ wh[w].pc = "notify" /\ wh[w].seen = "pending"
       /\ subs[wh[w].sub].expires_at # NULL

\* C7: a Subscription's status becomes active only in the step of
\* processPaymentStatus that reconciles a confirmed event, and a new row is pending.
C7_ActiveOnlyByReconciliation ==
    [][/\ \A s \in SubIds :
             (subs'[s].status = "active" /\ subs[s].status # "active")
             => \E w \in Workers : /\ Reconciling(w, "confirmed")
                                   /\ wh[w].pc = "subUpdate" /\ wh[w].sub = s
                                   /\ wh'[w].pc = "notify"
       /\ Len(subs') > Len(subs) => subs'[Len(subs')].status = "pending"]_vars

C7_Witness ==
    \E s \in SubIds : subs[s].status = "active" /\ activated[s] = 1 /\ Quiescent

\* C8: a checkout whose adapter call failed creates no Subscription and no
\* Transaction: rows are created only after the adapter call returned.
C8_AdapterFailureCreatesNothing ==
    [][/\ (co.pc = "adapter" /\ co'.result = "fail") => (subs' = subs /\ txs' = txs)
       /\ (Len(subs') > Len(subs) \/ Len(txs') > Len(txs)) => co.result = "ok"]_vars

C8_Witness ==
    co.pc = "idle" /\ co.result = "fail" /\ subs = <<>> /\ txs = <<>>

\* C9: after a checkout has ended, every Subscription has a Transaction.
C9_NoSubscriptionWithoutTransaction ==
    co.pc = "idle" => \A s \in SubIds : TxBySubscription(s) # NULL

\* C10: a webhook correlated through its external reference reconciles the
\* Subscription created by the checkout that issued the reference (a checkout that
\* stored both of its rows), whatever other Subscriptions of the plan are pending.
C10_ReferenceFindsItsSubscription ==
    \A w \in Workers :
       (/\ wh[w].pc # "idle" /\ wh[w].byRef
        /\ payments[wh[w].payment].sub # NULL
        /\ TxBySubscription(payments[wh[w].payment].sub) # NULL)
       => wh[w].sub = payments[wh[w].payment].sub

\* C11: every payment-creation call reaches the provider under the creator's own
\* credential, with the platform named as the recipient of the split / fee field;
\* never under the platform's credential with the creator as the recipient.
C11_ChargeUnderCreatorCredential ==
    \A p \in 1..Len(payments) :
       payments[p].credential = "creator" /\ payments[p].recipient = "platform"

\* C12: the platform fee stored on a Transaction equals the platform fee sent to the
\* provider in the payment request of its checkout, whenever the request carries one.
C12_StoredSplitIsSentSplit ==
    \A p \in 1..Len(payments) :
       LET t == IF payments[p].sub = NULL THEN NULL ELSE TxBySubscription(payments[p].sub)
       IN  (t # NULL /\ payments[p].platformFee # NULL)
           => /\ txs[t].amount_platform_fee = payments[p].platformFee
              /\ txs[t].amount_net_creator =
                    CalculateSplit(PlanPrice(subs[payments[p].sub].plan_id),
                                   payments[p].platformFee).creatorNet

\* The Subscriptions a run has expired and handed to notifySubscriptionExpired.
Handled(r) == (sw[r].found \ sw[r].batch) \ sw[r].failed

\* C13: a run of the sweep takes up every Subscription that is active with a
\* non-null expires_at in the past when the run reads the table, and when the run
\* ends each of them whose update was carried out has status expired.
C13_LapsedIsExpiredAfterOneRun ==
    [][\A r \in Runs :
          /\ (sw[r].pc = "idle" /\ sw'[r].pc # "idle")
             => sw'[r].found = {s \in SubIds : /\ subs[s].status = "active"
                                               /\ subs[s].expires_at # NULL
                                               /\ subs[s].expires_at < now}
          /\ (sw[r].pc # "idle" /\ sw'[r].pc = "idle")
             => \A s \in sw[r].found \ sw[r].failed :
                   \/ sw[r].pc = "update" /\ s \in sw[r].batch
                   \/ subs'[s].status = "expired"]_vars

C13_Witness ==
    \E r \in Runs : /\ sw[r].pc = "notify"
                    /\ sw[r].cur \in sw[r].found
                    /\ subs[sw[r].cur].status = "expired"

\* C14: no step sets a Subscription whose expires_at is null to expired, however
\* many runs of the sweep there are and whatever the time is.
C14_LifetimeNeverExpires ==
    [][\A s \in SubIds :
          (subs'[s].status = "expired" /\ subs[s].status # "expired")
          => subs[s].expires_at # NULL]_vars

C14_Witness ==
    \E r \in Runs, s \in SubIds :
       /\ sw[r].pc = "update" /\ sw[r].found = {}
       /\ subs[s].status = "active" /\ subs[s].expires_at = NULL
       /\ subs[s].starts_at < now

\* C15: an item whose update fails does not end the run: the run ends only after
\* its last item, every other item of the batch is expired, and an item leaves
\* the batch otherwise only through the call of notifySubscriptionExpired, whose
\* failure does not end the run either.
C15_ItemFailureIsIsolated ==
    [][\A r \in Runs :
          /\ (sw[r].pc # "idle" /\ sw'[r].pc = "idle") => Cardinality(sw[r].batch) <= 1
          /\ sw'[r].pc # "idle"
             => \A s \in (sw'[r].found \ sw'[r].batch) \ sw'[r].failed :
                   subs'[s].status = "expired"
          /\ \A s \in sw[r].batch :
                (s \notin sw'[r].batch /\ sw'[r].pc # "idle" /\ s \notin sw'[r].failed)
                => (sw[r].pc = "notify" /\ sw[r].cur = s)]_vars

C15_Witness ==
    \E r \in Runs : /\ sw[r].pc = "notify"
                    /\ sw[r].failed # {}
                    /\ subs[sw[r].cur].status = "expired"

\* C16: two runs of the sweep in progress at once do not both expire and notify the
\* same Subscription.
C16_OverlappingRunsShareNoRow ==
    \A r, q \in Runs :
       r # q => LET Issued(x) == Handled(x) \cup (IF sw[x].pc = "notify" THEN {sw[x].cur} ELSE {})
                IN  Issued(r) \cap Issued(q) = {}

\* C17: reconciling an event of the pending bucket leaves the Transaction's
\* status and paid_at and every Subscription as they are.
C17_PendingEventMutatesNothing ==
    [][\A w \in Workers :
          Reconciling(w, "pending")
          => /\ txs'[wh[w].tx].status = txs[wh[w].tx].status
             /\ txs'[wh[w].tx].paid_at = txs[wh[w].tx].paid_at
             /\ subs' = subs]_vars

\* C18: when the handler of an event that its provider reports as failed
\* (rejected, cancelled) returns with success, having found the Transaction
\* pending, the Transaction and its Subscription are failed and nobody was notified.
C18_FailedEventFailsBoth ==
    [][\A w \in Workers :
          (/\ wh[w].pc # "idle" /\ wh'[w].pc = "idle"
           /\ wh[w].bucket = "failed" /\ wh[w].seen = "pending"
           /\ response' = Success)
          => /\ txs'[wh[w].tx].status = "failed"
             /\ subs'[wh[w].sub].status = "failed"
             /\ notified' = notified]_vars

\* The latest delivery passed its handler's signature check (only Stripe's has one).
Authentic ==
    gateway_preference = "stripe" => (webhookSecret /\ signature = "valid")

C21_UnverifiableStripeEventIsRejected ==
    [][(/\ delivered' = delivered + 1
        /\ gateway_preference = "stripe"
        /\ ~(webhookSecret /\ signature' = "valid"))
       => /\ response' = BadRequest
          /\ wh' = wh /\ txs' = txs /\ subs' = subs /\ notified' = notified]_vars

C21_Witness ==
    /\ response = BadRequest /\ signature = "forged" /\ webhookSecret
    /\ \E s \in SubIds : subs[s].status = "pending" /\ TxBySubscription(s) # NULL

\* C22: a checkout whose gateway name is not in the registry fails: no adapter call
\* returns, so no provider payment, no Subscription and no Transaction exists.
C22_UnregisteredGatewayCreatesNothing ==
    gateway_preference = "paypal"
    => /\ payments = <<>> /\ subs = <<>> /\ txs = <<>>
       /\ co.pc \in {"idle", "adapter"} /\ co.result \in {"none", "fail", "invalid", "unconfigured"}

C22_Witness ==
    gateway_preference = "paypal" /\ co.pc = "idle" /\ co.result = "fail"

\* C23: a checkout for a creator without a gateway token ends at once with the
\* configuration error, and creates no provider payment, no Subscription and no
\* Transaction.
C23_MissingCredentialsCreateNothing ==
    [][(co' # co /\ ~co'.token)
       => /\ co'.pc = "idle" /\ co'.result = "unconfigured"
          /\ payments' = payments /\ subs' = subs /\ txs' = txs]_vars

C23_Witness ==
    co.pc = "idle" /\ co.result = "unconfigured" /\ ~co.token

C25_SubscriptionFallsBackToPayment ==
    (svc.op = "createSubscription" /\ svc.gateway \notin {"asaas", "mercadopago", "stripe"})
    => svc.outcome = "payment"

\* C26: a split of an amount in whole cents that is not below the fee has
\* platformFee + creatorNet = gross, both in whole cents.
C26_SplitAddsUpToGross ==
    (svc.op = "calculateSplit" /\ svc.amount >= svc.fee)
    => /\ svc.split.platformFee + svc.split.creatorNet = svc.split.gross
       /\ svc.split.platformFee % 10 = 0 /\ svc.split.creatorNet % 10 = 0

\* C27: a split of an amount below the current fee has creatorNet 0 and the
\* configured fee (at two decimals) as platformFee.
C27_ShortfallKeepsTheFee ==
    (svc.op = "calculateSplit" /\ svc.amount < svc.fee)
    => /\ svc.split.creatorNet = 0
       /\ svc.split.platformFee % 10 = 0
       /\ svc.split.platformFee - svc.fee \in (0 - 4)..5

C27_Witness ==
    /\ svc.op = "calculateSplit" /\ svc.amount = 400 /\ svc.fee = 550
    /\ svc.split = [gross |-> 400, platformFee |-> 550, creatorNet |-> 0]

\* C28: no step (a fee change, a reconciliation, a sweep, a cancellation) changes
\* the gross, fee and net amounts of a Transaction that exists.
C28_StoredSplitIsFrozen ==
    [][\A t \in TxIds :
          /\ t <= Len(txs')
          /\ txs'[t].amount_gross = txs[t].amount_gross
          /\ txs'[t].amount_platform_fee = txs[t].amount_platform_fee
          /\ txs'[t].amount_net_creator = txs[t].amount_net_creator]_vars

C28_Witness ==
    \E t \in TxIds : /\ txs[t].status = "confirmed"
                     /\ txs[t].amount_platform_fee = 550
                     /\ fixed_fee_amount = 1000

\* C29: no step removes a Transaction.
C29_TransactionsAreNeverDeleted ==
    [][Len(txs') >= Len(txs)]_vars

\* C30: the fee read returns the stored fee when there is one and the read
\* succeeds, and 0.55 otherwise; it hands no error to its caller.
C30_FeeReadFallsBack ==
    svc.op = "getPlatformFee"
    => svc.fee = (IF svc.readFails \/ svc.setting = NULL THEN 550 ELSE svc.setting)

C30_Witness ==
    svc.op = "getPlatformFee" /\ svc.readFails /\ svc.setting = 1000 /\ svc.fee = 550

\* C31: every active Subscription has a Transaction that is confirmed with paid_at
\* set, in every state in which no handler is between two of its writes.
C31_ActiveHasConfirmedTransaction ==
    \A s \in SubIds :
       (Quiescent /\ subs[s].status = "active")
       => \E t \in TxIds : /\ txs[t].subscription_id = s
                            /\ txs[t].status = "confirmed"
                            /\ txs[t].paid_at # NULL

C33_AccessOnlyOnValidSubscription ==
    [][(access' # access /\ access'.command = "grupo"
        /\ (access'.sub # NULL \/ access'.link))
       => LET s == access'.sub
          IN  /\ s \in SubIds
              /\ subs[s].user_telegram_id = access'.user
              /\ subs[s].status = "active"
              /\ (subs[s].expires_at = NULL \/ subs[s].expires_at > now)]_vars

C33_Witness ==
    /\ access.command = "grupo" /\ access.sub = NULL /\ ~access.link
    /\ \E s \in SubIds : /\ subs[s].user_telegram_id = access.user
                         /\ subs[s].status = "active"
                         /\ subs[s].expires_at # NULL /\ subs[s].expires_at < now

\* C34: the cancel_confirm callback goes on to its update only for the
\* Subscription's own user, a Subscription becomes cancelled only through the
\* callback of its own user, and the callback of any other user changes no
\* Subscription and leaves the handler before anybody is removed from the group.
C34_OnlyTheOwnerCancels ==
    [][/\ (cc.pc = "idle" /\ cc'.pc = "update")
          => subs[cc'.sub].user_telegram_id = cc'.user
       /\ \A s \in SubIds :
             (s <= Len(subs') /\ subs'[s].status = "cancelled" /\ subs[s].status # "cancelled")
             => (cc.pc = "update" /\ cc.sub = s /\ cc.user = subs[s].user_telegram_id)
       /\ (access' # access /\ access'.command = "cancel_confirm")
          => (subs' = subs /\ cc' = cc /\ cc.pc = "idle")]_vars

C34_Witness ==
    /\ access.command = "cancel_confirm"
    /\ access.sub \in SubIds
    /\ subs[access.sub].user_telegram_id # access.user
    /\ subs[access.sub].status = "active"

\* C35: the press of a cancel button that /cancelar offered sets the Subscription to
\* cancelled only if it is active at that moment.
C35_CancelledOnlyFromActive ==
    [][\A s \in SubIds :
          (/\ s <= Len(subs') /\ subs'[s].status = "cancelled" /\ subs[s].status # "cancelled"
           /\ access.command = "cancelar" /\ access.sub = s)
          => subs[s].status = "active"]_vars

\* C36: at most one processQueue run is in progress, and isProcessing is set exactly
\* while one is; a tick that finds a run in progress changes no row and starts
\* nothing; when a run ends, by its last item or by an error, the flag is cleared.
C36_OneRunAtATime ==
    [][/\ Cardinality({r \in Runs : qrun'[r].pc # "idle"}) <= 1
       /\ isProcessing' = (\E r \in Runs : qrun'[r].pc # "idle")
       /\ (lastTick # "skipped" /\ lastTick' = "skipped")
          => /\ \E r \in Runs : qrun[r].pc # "idle"
             /\ UNCHANGED <<qrun, isProcessing, items, broadcasts>>
       /\ \A r \in Runs :
             (qrun[r].pc # "idle" /\ qrun'[r].pc = "idle") => ~isProcessing']_vars

C36_Witness ==
    /\ lastTick = "skipped"
    /\ \E r \in Runs : qrun[r].pc = "markSent"

\* C37: Telegram takes at most one message for a BroadcastItem.
C37_ItemIsDeliveredOnce ==
    \A i \in 1..Len(items) : items[i].sends <= 1

\* C38: promotions_used_this_month is never above 3; a submitPromotion request that
\* is made when the counter is 3 and no monthly reset is due holds 3, and a request
\* that holds 3 is answered LIMIT_REACHED and leaves the User row as it is.
C38_ThreeMonthlySlots ==
    [][/\ creator'.promotions_used_this_month <= 3
       /\ \A q \in Workers :
            /\ ( /\ sp[q].pc = "idle" /\ sp'[q].pc # "idle"
                 /\ creator.promotions_used_this_month = 3
                 /\ now < creator.promotions_reset_at )
               => (sp'[q].pc = "check" /\ sp'[q].used = 3)
            /\ (sp[q].pc = "check" /\ sp[q].used = 3 /\ sp'[q].pc = "idle")
               => (answer' = "LIMIT_REACHED" /\ creator' = creator)]_vars

\* A request has just been answered LIMIT_REACHED with the counter at 3.
C38_Witness ==
    /\ answer = "LIMIT_REACHED"
    /\ creator.promotions_used_this_month = 3
    /\ creator.promotion_active
    /\ \A q \in Workers : sp[q].pc = "idle"

\* C39: a promotion lasts at least 30 days: a step that sets promotion_ends_at is
\* made less than 30 days after promotion_started_at, leaves promotion_active true
\* and writes only promotion_ends_at = promotion_started_at + 30; promotion_active
\* becomes false no earlier than 30 days after promotion_started_at.
C39_PromotionLastsThirtyDays ==
    [][/\ (creator'.promotion_ends_at # creator.promotion_ends_at
              /\ creator'.promotion_ends_at # NULL)
          => /\ now < creator.promotion_started_at + 30
             /\ creator' = [creator EXCEPT
                              !.promotion_ends_at = creator.promotion_started_at + 30]
             /\ creator'.promotion_active
       /\ (creator.promotion_active /\ ~creator'.promotion_active)
          => now >= creator.promotion_started_at + 30]_vars
====
